---- MODULE Spec2Model ----
(***************************************************************************)
(* Win32 backend of softbuffer (src/win32.rs): the off-screen Buffer (a    *)
(* memory DC plus a DIB section), the Win32Impl surface that owns at most  *)
(* one of them, and the BufferImpl session that mutably borrows the        *)
(* surface.                                                                *)
(*                                                                         *)
(* A u32 is the record [hi, lo] standing for hi * 2^31 + lo, so that the   *)
(* values above i32::MAX are represented exactly; an i32 is an integer.    *)
(* An Option<T> is a sequence of length 0 (None) or 1 (Some).              *)
(*                                                                         *)
(* GDI is the environment.  A drawable surface is [w, h, px] with px the   *)
(* row-major pixel store; BitBlt with SRCCOPY copies pixel values          *)
(* unchanged.  The window's surface is WinW x WinH and covers every buffer *)
(* the system grants (CreateDIBSection fails beyond MaxW x MaxH).          *)
(***************************************************************************)
EXTENDS Integers, Sequences, FiniteSets, TLC

MaxW == 2        \* widest DIB section the system grants; window width
MaxH == 2        \* tallest DIB section the system grants; window height
MaxDamage == 2   \* longest damage slice explored
MaxOps == 5      \* calls on the surface explored per behaviour

I32Max == 2147483647

Pixel == {0, 1}

VARIABLES
    surface,   \* Option<Win32Impl> without its buffer: <<[window, dc]>>
    buffer,    \* Win32Impl::buffer: Option<Buffer>
    session,   \* a BufferImpl (the &mut borrow of the surface) is alive
    window,    \* pixel store behind the window's device context
    valid,     \* the window's update region is empty (ValidateRect)
    dcs,       \* live device-context handles
    bitmaps,   \* live bitmap handles
    gdiErr,    \* a handle was released that was not live
    pc,        \* position of the single thread
    call,      \* frame of the call in progress
    newbuf,    \* Buffer::new's locals / the buffer it returned, not yet stored
    ret,       \* what the last completed call returned
    prev,      \* <<op, result>> of the completed call before that one
    sized,     \* arguments of the most recent resize that returned Ok
    shown,     \* the buffer's pixels at its most recent present that returned Ok
    ops        \* number of calls made on the surface

vars == <<surface, buffer, session, window, valid, dcs, bitmaps, gdiErr,
          pc, call, newbuf, ret, prev, sized, shown, ops>>

(***************************************************************************)
(* Values                                                                  *)
(***************************************************************************)
U32(n) == [hi |-> 0, lo |-> n]
U32Big == [hi |-> 1, lo |-> 0]            \* i32::MAX + 1
U32Max == [hi |-> 1, lo |-> I32Max]       \* u32::MAX

\* i32::try_from(v).ok() is Some
TryFromOk(v) == v.hi = 0

\* the i32 it yields
AsI32(v) == v.lo

NonZeroI32OkAlways(v) == TRUE

\* NonZeroI32::new(i32::try_from(v.get()).ok()?) is Some
NonZeroI32Ok(v) == TryFromOk(v) /\ AsI32(v) # 0

\* NonZeroU32::try_from(i32) as used by present(): Some for positive values
ToNonZeroU32(n) == U32(n)

Rect(x, y, w, h) == [x |-> x, y |-> y, width |-> w, height |-> h]

None == <<>>
Some(v) == <<v>>

NoCall == [op |-> "none", arg |-> <<>>, width |-> 0, height |-> 0, done |-> <<>>,
           pre |-> <<>>]
\* a returned value: arg is what the call was given, err what its error carries,
\* data the pixels and n the number it returns
NoRet == [op |-> "none", res |-> "none", arg |-> <<>>, err |-> <<>>, data |-> <<>>,
          n |-> 0]
NoBuf == [dc |-> 0, bitmap |-> 0, width |-> 0, height |-> 0, pixels |-> <<>>,
          presented |-> FALSE]

Ret(op, res) == [NoRet EXCEPT !.op = op, !.res = res]

\* smallest handle value not in use (handles are never 0)
FreshHandle(live) ==
    CHOOSE h \in 1..(Cardinality(live) + 1) :
        h \notin live /\ \A g \in 1..(Cardinality(live) + 1) : g \notin live => h <= g

(***************************************************************************)
(* GDI surfaces                                                            *)
(***************************************************************************)
WinW == MaxW
WinH == MaxH

Surf(w, h, px) == [w |-> w, h |-> h, px |-> px]

WindowSurf == Surf(WinW, WinH, window)

BitBltShort(dst, x, y, cw, ch, src, oob) ==
    [i \in 1..Len(dst.px) |->
        LET X == (i - 1) % dst.w
            Y == (i - 1) \div dst.w
        IN  IF X >= x /\ X - x < cw - 1 /\ Y >= y /\ Y - y < ch
            THEN IF X < src.w /\ Y < src.h
                 THEN src.px[Y * src.w + X + 1]
                 ELSE IF oob = "zero" THEN 0 ELSE dst.px[i]
            ELSE dst.px[i]]

\* Gdi::BitBlt(dst, x, y, cw, ch, src, x, y, SRCCOPY): the pixel store of dst
\* afterwards.  Pixels of the block that lie outside dst are clipped; pixels
\* whose source lies outside src are platform-defined: left alone (oob =
\* "skip") or blackened (oob = "zero").
BitBlt(dst, x, y, cw, ch, src, oob) ==
    [i \in 1..Len(dst.px) |->
        LET X == (i - 1) % dst.w
            Y == (i - 1) \div dst.w
        IN  IF X >= x /\ X - x < cw /\ Y >= y /\ Y - y < ch
            THEN IF X < src.w /\ Y < src.h
                 THEN src.px[Y * src.w + X + 1]
                 ELSE IF oob = "zero" THEN 0 ELSE dst.px[i]
            ELSE dst.px[i]]

(***************************************************************************)
(* Buffer                                                                  *)
(***************************************************************************)
\* the memory CreateDIBSection maps for biWidth x |biHeight| 32-bit pixels
DibMemory(width, height) == [i \in 1..(width * height) |-> 0]

BufferPixelsShort(b) == SubSeq(b.pixels, 1, b.width)

\* Buffer::pixels / Buffer::pixels_mut: slice::from_raw_parts(ptr, width * height)
BufferPixels(b) == SubSeq(b.pixels, 1, b.width * b.height)

BufSurfBlank(b) == Surf(b.width, b.height, DibMemory(b.width, b.height))

\* the bitmap selected into the buffer's DC, as BitBlt sees it
BufSurf(b) == Surf(b.width, b.height, b.pixels)

\* BufferImpl::age
Age(buf) == IF buf # None /\ buf[1].presented THEN 1 ELSE 0

IsNoneNever(buf) == FALSE

\* self.buffer.is_none()
IsNone(buf) == buf = None

SameSizeNever(buf, width, height) == FALSE

SameSizeWidthOnly(buf, width, height) == buf # None /\ buf[1].width = width

\* the early return of resize: the current buffer already has these dimensions
SameSize(buf, width, height) ==
    buf # None /\ buf[1].width = width /\ buf[1].height = height

(***************************************************************************)
(* Init                                                                    *)
(***************************************************************************)
Init ==
    /\ surface = None
    /\ buffer = None
    /\ session = FALSE
    /\ \E bg \in Pixel : window = [i \in 1..(WinW * WinH) |-> bg]
    /\ valid = FALSE
    /\ dcs = {}
    /\ bitmaps = {}
    /\ gdiErr = FALSE
    /\ pc = "idle"
    /\ call = NoCall
    /\ newbuf = NoBuf
    /\ ret = NoRet
    /\ prev = <<"none", "none">>
    /\ sized = <<>>
    /\ shown = <<>>
    /\ ops = 0

\* the surface and its environment as a call finds them (kept in the call's
\* frame so that what the call returns can be compared with it)
Snapshot == <<[buffer |-> buffer, window |-> window, valid |-> valid,
               dcs |-> dcs, bitmaps |-> bitmaps]>>

\* a call returns to the caller
Return(r) ==
    /\ pc' = "idle"
    /\ call' = NoCall
    /\ ret' = r
    /\ prev' = <<ret.op, ret.res>>

\* a call panics: the thread unwinds and the model follows it no further
Panic(op) ==
    /\ pc' = "panicked"
    /\ call' = NoCall
    /\ ret' = Ret(op, "panic")
    /\ prev' = <<ret.op, ret.res>>

Enter == pc = "idle" /\ ops < MaxOps /\ ops' = ops + 1

BorrowableAlways(s) == TRUE

\* &mut self can be taken: no BufferImpl holds the surface's mutable borrow
Borrowable(s) == ~s

(***************************************************************************)
(* Win32Impl::new                                                          *)
(***************************************************************************)
IsNullNever(hwnd) == FALSE

\* handle.hwnd.is_null()
IsNull(hwnd) == hwnd = 0

\* ret.n counts the calls of Gdi::GetDC the constructor made
New(hwnd, dcOk) ==
    /\ pc = "idle"
    /\ surface = None
    /\ IF IsNull(hwnd)
       THEN /\ Return([Ret("new", "IncompleteWindowHandle") EXCEPT !.arg = <<hwnd>>])
            /\ UNCHANGED <<surface, dcs>>
       ELSE IF ~dcOk
       THEN /\ Return([Ret("new", "PlatformError") EXCEPT !.arg = <<hwnd>>, !.n = 1])
            /\ UNCHANGED <<surface, dcs>>
       ELSE LET dc == FreshHandle(dcs)
            IN  /\ surface' = Some([window |-> hwnd, dc |-> dc])
                /\ dcs' = dcs \cup {dc}
                /\ Return([Ret("new", "Ok") EXCEPT !.arg = <<hwnd>>, !.n = 1])
    /\ UNCHANGED <<buffer, session, window, valid, bitmaps, gdiErr, newbuf, sized, shown, ops>>

(***************************************************************************)
(* Buffer::new and Drop for Buffer                                         *)
(***************************************************************************)
\* inputs of resize: NonZeroU32, so never 0
WidthInputs == {U32(n) : n \in 1..MaxW} \cup {U32(I32Max), U32Big}
HeightInputs == {U32(n) : n \in 1..MaxH} \cup {U32(I32Max), U32Big}

\* what the system answers to Buffer::new's two allocations
GdiOutcomes == {"ok", "no_dc", "no_dib"}

NewBufferPresented(dc, bitmap, width, height) ==
    [dc |-> dc, bitmap |-> bitmap, width |-> width, height |-> height,
     pixels |-> DibMemory(width, height), presented |-> TRUE]

\* the Buffer value Buffer::new returns
NewBuffer(dc, bitmap, width, height) ==
    [dc |-> dc, bitmap |-> bitmap, width |-> width, height |-> height,
     pixels |-> DibMemory(width, height), presented |-> FALSE]

\* Buffer::new(self.dc, call.width, call.height): CreateCompatibleDC and the
\* assert on it, CreateDIBSection and the asserts on it, SelectObject, Self {..}
BufferNew(gdi) ==
    /\ pc = "buffer_new"
    /\ IF gdi = "no_dc"
       THEN /\ Panic(call.op)
            /\ UNCHANGED <<dcs, bitmaps, newbuf>>
       ELSE LET dc == FreshHandle(dcs)
            IN  /\ dcs' = dcs \cup {dc}
                /\ IF gdi = "no_dib" \/ call.width > MaxW \/ call.height > MaxH
                   THEN /\ Panic(call.op)
                        /\ UNCHANGED <<bitmaps, newbuf>>
                   ELSE LET bitmap == FreshHandle(bitmaps)
                        IN  /\ bitmaps' = bitmaps \cup {bitmap}
                            /\ newbuf' = NewBuffer(dc, bitmap, call.width, call.height)
                            /\ pc' = IF call.op = "resize" THEN "resize_assign"
                                                           ELSE "fetch_blt"
                            /\ UNCHANGED <<call, ret, prev>>
    /\ UNCHANGED <<surface, buffer, session, window, valid, gdiErr, sized, shown, ops>>

DropBufferLeak(b) == UNCHANGED <<dcs, bitmaps, gdiErr>>

DropBufferDcOnly(b) ==
    /\ dcs' = dcs \ {b.dc}
    /\ UNCHANGED <<bitmaps, gdiErr>>

\* Drop for Buffer: DeleteDC(self.dc); DeleteObject(self.bitmap)
DropBuffer(b) ==
    /\ dcs' = dcs \ {b.dc}
    /\ bitmaps' = bitmaps \ {b.bitmap}
    /\ gdiErr' = (gdiErr \/ b.dc \notin dcs \/ b.bitmap \notin bitmaps)

(***************************************************************************)
(* Win32Impl::resize                                                       *)
(***************************************************************************)
ResizeClearsOnError(width, height) ==
    /\ Enter
    /\ surface # None
    /\ Borrowable(session)
    /\ IF ~(NonZeroI32Ok(width) /\ NonZeroI32Ok(height))
       THEN /\ Return([Ret("resize", "SizeOutOfRange") EXCEPT
                               !.arg = <<width, height>>, !.err = <<width, height>>])
            /\ buffer' = None
            /\ UNCHANGED sized
       ELSE IF SameSize(buffer, AsI32(width), AsI32(height))
       THEN /\ Return([Ret("resize", "Ok") EXCEPT !.arg = <<width, height>>])
            /\ sized' = <<AsI32(width), AsI32(height)>>
            /\ UNCHANGED buffer
       ELSE /\ pc' = "buffer_new"
            /\ call' = [NoCall EXCEPT !.op = "resize", !.arg = <<width, height>>,
                                      !.width = AsI32(width),
                                      !.height = AsI32(height), !.pre = Snapshot]
            /\ UNCHANGED <<ret, prev, sized, buffer>>
    /\ UNCHANGED <<surface, session, window, valid, dcs, bitmaps, gdiErr, newbuf, shown>>

\* Win32Impl::resize up to the call of Buffer::new
Resize(width, height) ==
    /\ Enter
    /\ surface # None
    /\ Borrowable(session)
    /\ IF ~(NonZeroI32Ok(width) /\ NonZeroI32Ok(height))
       THEN /\ Return([Ret("resize", "SizeOutOfRange") EXCEPT
                               !.arg = <<width, height>>, !.err = <<width, height>>])
            /\ UNCHANGED sized
       ELSE IF SameSize(buffer, AsI32(width), AsI32(height))
       THEN /\ Return([Ret("resize", "Ok") EXCEPT !.arg = <<width, height>>])
            /\ sized' = <<AsI32(width), AsI32(height)>>
       ELSE /\ pc' = "buffer_new"
            /\ call' = [NoCall EXCEPT !.op = "resize", !.arg = <<width, height>>,
                                      !.width = AsI32(width),
                                      !.height = AsI32(height), !.pre = Snapshot]
            /\ UNCHANGED <<ret, prev, sized>>
    /\ UNCHANGED <<surface, buffer, session, window, valid, dcs, bitmaps, gdiErr, newbuf,
                   shown>>

\* self.buffer = Some(<the new buffer>): the old value is dropped by the assignment
ResizeAssign ==
    /\ pc = "resize_assign"
    /\ IF buffer # None
       THEN DropBuffer(buffer[1])
       ELSE UNCHANGED <<dcs, bitmaps, gdiErr>>
    /\ buffer' = Some(newbuf)
    /\ newbuf' = NoBuf
    /\ sized' = <<call.width, call.height>>
    /\ shown' = <<>>
    /\ Return([Ret("resize", "Ok") EXCEPT !.arg = call.arg])
    /\ UNCHANGED <<surface, session, window, valid, ops>>

(***************************************************************************)
(* Win32Impl::buffer_mut and the session's accessors                       *)
(***************************************************************************)
BufferMut ==
    /\ Enter
    /\ surface # None
    /\ Borrowable(session)
    /\ IF IsNone(buffer)
       THEN /\ Panic("buffer_mut")
            /\ UNCHANGED session
       ELSE /\ session' = TRUE
            /\ Return(Ret("buffer_mut", "Ok"))
    /\ UNCHANGED <<surface, buffer, window, valid, dcs, bitmaps, gdiErr, newbuf, sized, shown>>

\* the indices of the slice pixels_mut() returns
SliceIndices ==
    IF buffer = None THEN {} ELSE 1..Len(BufferPixels(buffer[1]))

\* BufferImpl::pixels_mut, and the caller storing v at index i of the slice
WritePixel(i, v) ==
    /\ Enter
    /\ session
    /\ buffer # None      \* else SliceIndices is empty: unwrap() has panicked
    /\ buffer' = Some([buffer[1] EXCEPT !.pixels[i] = v])
    /\ Return([Ret("pixels_mut", "Ok") EXCEPT !.n = Len(BufferPixels(buffer[1]))])
    /\ UNCHANGED <<surface, session, window, valid, dcs, bitmaps, gdiErr, newbuf, sized, shown>>

\* BufferImpl::pixels
ReadPixels ==
    /\ Enter
    /\ session
    /\ IF buffer = None
       THEN Panic("pixels")
       ELSE Return([Ret("pixels", "Ok") EXCEPT !.data = BufferPixels(buffer[1])])
    /\ UNCHANGED <<surface, buffer, session, window, valid, dcs, bitmaps, gdiErr, newbuf, sized, shown>>

\* BufferImpl::age
AgeCall ==
    /\ Enter
    /\ session
    /\ Return([Ret("age", "Ok") EXCEPT !.n = Age(buffer)])
    /\ UNCHANGED <<surface, buffer, session, window, valid, dcs, bitmaps, gdiErr, newbuf, sized, shown>>

\* the BufferImpl goes out of scope without presenting
DropSession ==
    /\ Enter
    /\ session
    /\ session' = FALSE
    /\ Return(Ret("drop", "Ok"))
    /\ UNCHANGED <<surface, buffer, window, valid, dcs, bitmaps, gdiErr, newbuf, sized, shown>>

\* the Win32Impl goes out of scope: it has no Drop of its own, so its fields
\* are dropped in turn; buffer: Option<Buffer> runs Drop for Buffer, and the
\* window DC, a plain handle, is left as it is
DropSurface ==
    /\ pc = "idle"
    /\ surface # None
    /\ Borrowable(session)
    /\ IF buffer # None
       THEN DropBuffer(buffer[1])
       ELSE UNCHANGED <<dcs, bitmaps, gdiErr>>
    /\ buffer' = None
    /\ pc' = "dropped"
    /\ call' = NoCall
    /\ ret' = Ret("drop_surface", "Ok")
    /\ prev' = <<ret.op, ret.res>>
    /\ UNCHANGED <<surface, session, window, valid, newbuf, sized, shown, ops>>

(***************************************************************************)
(* Win32Impl::present_with_damage, BufferImpl::present(_with_damage)       *)
(***************************************************************************)
RectFitsNoX(rect) ==
    /\ TryFromOk(rect.y)
    /\ TryFromOk(rect.width)
    /\ TryFromOk(rect.height)

RectFitsClipped(rect) ==
    /\ TryFromOk(rect.x)
    /\ TryFromOk(rect.y)
    /\ TryFromOk(rect.width)
    /\ TryFromOk(rect.height)
    /\ rect.x.lo < buffer[1].width /\ rect.width.lo <= buffer[1].width - rect.x.lo
    /\ rect.y.lo < buffer[1].height /\ rect.height.lo <= buffer[1].height - rect.y.lo

\* the four fields of a rect all convert with i32::try_from
RectFits(rect) ==
    /\ TryFromOk(rect.x)
    /\ TryFromOk(rect.y)
    /\ TryFromOk(rect.width)
    /\ TryFromOk(rect.height)

WholeRectSwapped(b) ==
    Rect(U32(0), U32(0), ToNonZeroU32(b.height), ToNonZeroU32(b.width))

\* the rect present() builds: the whole buffer
WholeRect(b) == Rect(U32(0), U32(0), ToNonZeroU32(b.width), ToNonZeroU32(b.height))

\* rects a caller passes: inside the buffer, beyond it, and with one field
\* above i32::MAX
RectInputs ==
    { Rect(U32(0), U32(0), U32(1), U32(1)),
      Rect(U32(1), U32(0), U32(1), U32(MaxH)),
      Rect(U32(0), U32(1), U32(MaxW), U32(1)),
      Rect(U32(0), U32(0), U32(I32Max), U32(I32Max)),
      Rect(U32Big, U32(0), U32(1), U32(1)),
      Rect(U32(0), U32(0), U32(1), U32Max) }

OobOutcomes == {"skip", "zero"}

\* BufferImpl::present
Present ==
    /\ Enter
    /\ session
    /\ IF buffer = None      \* self.buffer.as_ref().unwrap()
       THEN Panic("present")
       ELSE /\ pc' = "damage_loop"
            /\ call' = [NoCall EXCEPT !.op = "present", !.pre = Snapshot]
            /\ UNCHANGED <<ret, prev>>
    /\ UNCHANGED <<surface, buffer, session, window, valid, dcs, bitmaps, gdiErr,
                   newbuf, sized, shown>>

\* BufferImpl::present_with_damage
PresentWithDamage ==
    /\ Enter
    /\ session
    /\ IF buffer = None      \* self.buffer.as_ref().unwrap()
       THEN Panic("present_with_damage")
       ELSE /\ pc' = "damage_loop"
            /\ call' = [NoCall EXCEPT !.op = "present_with_damage", !.pre = Snapshot]
            /\ UNCHANGED <<ret, prev>>
    /\ UNCHANGED <<surface, buffer, session, window, valid, dcs, bitmaps, gdiErr,
                   newbuf, sized, shown>>

\* what damage.iter() can yield next: for present() the whole-buffer rect and
\* then nothing; for present_with_damage whatever the caller's slice holds at
\* that position (call.done holds the rects read so far)
NextRects ==
    IF call.op = "present"
    THEN IF call.done = <<>> THEN {WholeRect(buffer[1])} ELSE {}
    ELSE IF Len(call.done) < MaxDamage THEN RectInputs ELSE {}

SliceMayEnd == call.op = "present" => call.done # <<>>

DamageNextRollback(rect, oob) ==
    /\ pc = "damage_loop"
    /\ rect \in NextRects
    /\ IF ~RectFits(rect)
       THEN /\ Return([Ret(call.op, "DamageOutOfRange") EXCEPT
                               !.arg = <<rect>>, !.err = <<rect>>])
            /\ session' = FALSE
            /\ window' = call.pre[1].window
       ELSE /\ window' = BitBlt(WindowSurf, AsI32(rect.x), AsI32(rect.y),
                                AsI32(rect.width), AsI32(rect.height),
                                BufSurf(buffer[1]), oob)
            /\ call' = [call EXCEPT !.done = Append(call.done, rect)]
            /\ UNCHANGED <<session, pc, ret, prev>>
    /\ UNCHANGED <<surface, buffer, valid, dcs, bitmaps, gdiErr, newbuf, sized, shown, ops>>

\* one iteration of the loop over damage: convert the rect or fail, then BitBlt
DamageNext(rect, oob) ==
    /\ pc = "damage_loop"
    /\ rect \in NextRects
    /\ IF ~RectFits(rect)
       THEN /\ Return([Ret(call.op, "DamageOutOfRange") EXCEPT
                               !.arg = <<rect>>, !.err = <<rect>>])
            /\ session' = FALSE
            /\ UNCHANGED window
       ELSE /\ window' = BitBlt(WindowSurf, AsI32(rect.x), AsI32(rect.y),
                                AsI32(rect.width), AsI32(rect.height),
                                BufSurf(buffer[1]), oob)
            /\ call' = [call EXCEPT !.done = Append(call.done, rect)]
            /\ UNCHANGED <<session, pc, ret, prev>>
    /\ UNCHANGED <<surface, buffer, valid, dcs, bitmaps, gdiErr, newbuf, sized, shown, ops>>

MarkPresentedNot(b) == b

\* buffer.presented = true
MarkPresented(b) == [b EXCEPT !.presented = TRUE]

\* after the loop: ValidateRect, buffer.presented = true, Ok(())
DamageEnd ==
    /\ pc = "damage_loop"
    /\ SliceMayEnd
    /\ valid' = TRUE
    /\ buffer' = Some(MarkPresented(buffer[1]))
    /\ session' = FALSE
    /\ shown' = BufferPixels(buffer[1])
    /\ Return(Ret(call.op, "Ok"))
    /\ UNCHANGED <<surface, window, dcs, bitmaps, gdiErr, newbuf, sized, ops>>

(***************************************************************************)
(* Win32Impl::fetch                                                        *)
(***************************************************************************)
Fetch ==
    /\ Enter
    /\ surface # None
    /\ Borrowable(session)
    /\ IF buffer = None
       THEN Panic("fetch")
       ELSE /\ pc' = "buffer_new"
            /\ call' = [NoCall EXCEPT !.op = "fetch", !.width = buffer[1].width,
                                      !.height = buffer[1].height, !.pre = Snapshot]
            /\ UNCHANGED <<ret, prev>>
    /\ UNCHANGED <<surface, buffer, session, window, valid, dcs, bitmaps, gdiErr,
                   newbuf, sized, shown>>

FetchCopyFromBuffer(oob) ==
    /\ pc = "fetch_blt"
    /\ LET temp == [newbuf EXCEPT !.pixels =
                        BitBlt(BufSurf(newbuf), 0, 0, newbuf.width, newbuf.height,
                               BufSurf(buffer[1]), oob)]
       IN  Return([Ret("fetch", "Ok") EXCEPT !.data = BufferPixels(temp)])
    /\ DropBuffer(newbuf)
    /\ newbuf' = NoBuf
    /\ UNCHANGED <<surface, buffer, session, window, valid, sized, shown, ops>>

\* BitBlt window -> temp_buffer, GdiFlush, temp_buffer.pixels().to_vec(), and
\* temp_buffer dropped at the end of the scope
FetchCopy(oob) ==
    /\ pc = "fetch_blt"
    /\ LET temp == [newbuf EXCEPT !.pixels =
                        BitBlt(BufSurf(newbuf), 0, 0, newbuf.width, newbuf.height,
                               WindowSurf, oob)]
       IN  Return([Ret("fetch", "Ok") EXCEPT !.data = BufferPixels(temp)])
    /\ DropBuffer(newbuf)
    /\ newbuf' = NoBuf
    /\ UNCHANGED <<surface, buffer, session, window, valid, sized, shown, ops>>

(***************************************************************************)
(* Specification                                                           *)
(***************************************************************************)
Next ==
    \/ \E hwnd \in {0, 1}, dcOk \in BOOLEAN : New(hwnd, dcOk)
    \/ \E width \in WidthInputs, height \in HeightInputs : Resize(width, height)
    \/ \E gdi \in GdiOutcomes : BufferNew(gdi)
    \/ ResizeAssign
    \/ BufferMut
    \/ \E i \in SliceIndices, v \in Pixel : WritePixel(i, v)
    \/ ReadPixels
    \/ AgeCall
    \/ DropSession
    \/ DropSurface
    \/ Present
    \/ PresentWithDamage
    \/ \E rect \in RectInputs \cup NextRects, oob \in OobOutcomes : DamageNext(rect, oob)
    \/ DamageEnd
    \/ Fetch
    \/ \E oob \in OobOutcomes : FetchCopy(oob)

Spec == Init /\ [][Next]_vars

(***************************************************************************)
(* Properties                                                              *)
(***************************************************************************)
Idle == pc = "idle"

Returned(op, res) == Idle /\ ret.op = op /\ ret.res = res

\* a step that enters resize, and the arguments it was given
ResizeStep ==
    /\ pc = "idle"
    /\ ops' # ops
    /\ \/ pc' = "idle" /\ ret'.op = "resize"
       \/ pc' = "buffer_new" /\ call'.op = "resize"

ResizeArg == IF pc' = "idle" THEN ret'.arg ELSE call'.arg

\* C1: round trip.  When fetch() returns right after a successful present(),
\* the vector it returns has the length of the last resize, width * height,
\* and equals, element for element, the pattern the buffer held when it was
\* presented (written through pixels_mut() since the resize).
C1_RoundTrip ==
    (Returned("fetch", "Ok") /\ prev = <<"present", "Ok">>) =>
        /\ Len(ret.data) = sized[1] * sized[2]
        /\ \A i \in 1..(sized[1] * sized[2]) : ret.data[i] = buffer[1].pixels[i]

C1_Witness ==
    /\ Returned("fetch", "Ok")
    /\ prev = <<"present", "Ok">>
    /\ sized = <<2, 1>>
    /\ ret.data = <<0, 1>>
    /\ window # [i \in 1..(WinW * WinH) |-> 0]

\* C2 as stated: age() is 0 right after every resize that returns Ok and 1
\* right after every successful present.
C2_AgeZeroAfterEveryResize ==
    /\ Returned("resize", "Ok") => Age(buffer) = 0
    /\ (Returned("present", "Ok") \/ Returned("present_with_damage", "Ok")) =>
           Age(buffer) = 1

\* C2, amended: age() is 0 right after a resize that stores a new buffer (the
\* first one, or one to other dimensions), 1 right after every successful
\* present, and a resize to the current dimensions leaves age() as it was.
C2_AgeAfterResizeAndPresent ==
    [][ /\ (pc = "resize_assign" /\ pc' = "idle") => Age(buffer)' = 0
        /\ (pc = "idle" /\ pc' = "idle" /\ ops' # ops /\ ret'.op = "resize"
                /\ ret'.res = "Ok") => Age(buffer)' = Age(buffer)
        /\ (pc = "damage_loop" /\ pc' = "idle" /\ ret'.res = "Ok") => Age(buffer)' = 1
      ]_vars

C2_Witness ==
    /\ Returned("resize", "Ok")
    /\ prev = <<"present", "Ok">>
    /\ buffer # None
    /\ ~buffer[1].presented

\* C3: resize(w, h) on a buffer that already is w x h returns Ok at once and
\* changes nothing: no Buffer::new is entered, and the buffer (its handles,
\* pixels and presented flag) and the live GDI objects are what they were.
C3_SameSizeResizeIsNoOp ==
    [][ (ResizeStep /\ buffer # None
            /\ ResizeArg = <<U32(buffer[1].width), U32(buffer[1].height)>>)
        => /\ pc' = "idle"
           /\ ret'.res = "Ok"
           /\ buffer' = buffer
           /\ newbuf' = newbuf
           /\ dcs' = dcs
           /\ bitmaps' = bitmaps
           /\ window' = window
      ]_vars

C3_Witness ==
    /\ Returned("resize", "Ok")
    /\ prev = <<"present", "Ok">>
    /\ buffer # None
    /\ buffer[1].presented
    /\ ret.arg = <<U32(2), U32(1)>>
    /\ buffer[1].pixels = <<0, 0>>

\* C4: whenever the surface has a buffer, the slice pixels()/pixels_mut()
\* return has exactly width * height elements, for the width and height of
\* the most recent resize that returned Ok.
C4_SliceLength ==
    buffer # None =>
        /\ sized # <<>>
        /\ Len(BufferPixels(buffer[1])) = sized[1] * sized[2]

C4_Witness ==
    /\ Returned("pixels", "Ok")
    /\ sized = <<1, 2>>
    /\ Len(ret.data) = 2
    /\ prev = <<"buffer_mut", "Ok">>

\* a u32 that is 0 or above i32::MAX
OutOfRange(v) == v.hi # 0 \/ v.lo = 0

\* C5: resize(w, h) with w or h above i32::MAX (0 cannot be passed: the
\* parameters are NonZeroU32) returns SizeOutOfRange carrying w and h, enters
\* no Buffer::new, and leaves the buffer (or its absence), the live GDI objects
\* and the window as they were.
C5_ResizeOutOfRange ==
    [][ (ResizeStep /\ (OutOfRange(ResizeArg[1]) \/ OutOfRange(ResizeArg[2])))
        => /\ pc' = "idle"
           /\ ret'.res = "SizeOutOfRange"
           /\ ret'.err = ret'.arg
           /\ buffer' = buffer
           /\ newbuf' = newbuf
           /\ dcs' = dcs
           /\ bitmaps' = bitmaps
           /\ window' = window
           /\ valid' = valid
           /\ sized' = sized
      ]_vars

C5_Witness ==
    /\ Returned("resize", "SizeOutOfRange")
    /\ ret.err = <<U32(1), U32Big>>
    /\ buffer # None
    /\ buffer[1].presented
    /\ sized = <<2, 2>>

AllFieldsFit(rect) ==
    rect.x.hi = 0 /\ rect.y.hi = 0 /\ rect.width.hi = 0 /\ rect.height.hi = 0

\* C6: a damage rect with a field above i32::MAX is never copied: the call
\* returns DamageOutOfRange carrying that rect, and that return leaves the
\* buffer's presented flag (so age()), the window's validity and the window's
\* pixels as they were.
C6_DamageOutOfRange ==
    [][ pc = "damage_loop" =>
          /\ (Len(call'.done) > Len(call.done)) => AllFieldsFit(call'.done[Len(call'.done)])
          /\ (pc' = "idle" /\ ret'.res # "Ok") =>
                /\ ret'.res = "DamageOutOfRange"
                /\ ret'.err = ret'.arg
                /\ ~AllFieldsFit(ret'.err[1])
                /\ buffer' = buffer
                /\ Age(buffer)' = Age(buffer)
                /\ valid' = valid
                /\ window' = window
          /\ (pc' = "idle" /\ ret'.res = "Ok") =>
                \A k \in 1..Len(call.done) : AllFieldsFit(call.done[k])
      ]_vars

C6_Witness ==
    /\ Returned("present_with_damage", "DamageOutOfRange")
    /\ ret.err[1].x = U32Big
    /\ Age(buffer) = 0
    /\ ~valid

\* C7: buffer_mut() on a surface on which no resize has returned Ok panics
\* and yields no session; once a resize has returned Ok it returns Ok with a
\* session; it never returns an Err.
C7_BufferMutNeedsResize ==
    ret.op = "buffer_mut" =>
        /\ ret.res \in {"Ok", "panic"}
        /\ ret.res = "panic" <=> sized = <<>>
        /\ ret.res = "panic" => ~session

C7_Witness ==
    /\ ret.op = "buffer_mut"
    /\ ret.res = "panic"
    /\ pc = "panicked"
    /\ prev = <<"resize", "SizeOutOfRange">>

\* Buffer values alive: the surface's and the one Buffer::new has returned
NumBuffers == Len(buffer) + (IF newbuf = NoBuf THEN 0 ELSE 1)

\* C8 as stated: at every step at most one buffer (memory DC and bitmap) is
\* alive for the surface.
C8_OneBufferAtEveryStep == NumBuffers <= 1 /\ Cardinality(bitmaps) <= 1

\* C8, amended: between calls the only buffer alive is the surface's current
\* one and its two GDI objects are the only ones not released; inside resize
\* and fetch a second buffer is alive next to it (resize creates the new one
\* before the assignment drops the old one), never a third.
C8_OneBufferBetweenCalls ==
    /\ NumBuffers <= 2
    /\ Cardinality(bitmaps) = NumBuffers
    /\ Idle =>
         /\ newbuf = NoBuf
         /\ bitmaps = {buffer[k].bitmap : k \in 1..Len(buffer)}
         /\ dcs = {buffer[k].dc : k \in 1..Len(buffer)}
                      \cup {surface[k].dc : k \in 1..Len(surface)}

C8_Witness ==
    /\ pc = "resize_assign"
    /\ buffer # None
    /\ NumBuffers = 2
    /\ Cardinality(bitmaps) = 2

\* C9: while a session is alive no resize, fetch or buffer_mut is entered and
\* the buffer is not replaced; a present is entered only from a session; a
\* session ends only by being dropped or by present/present_with_damage
\* returning, and every return of a present (Ok or Err) ends it.
C9_SessionIsExclusive ==
    [][ /\ session =>
             /\ call'.op \notin {"resize", "fetch"}
             /\ ops' # ops => (IF pc' = "damage_loop" THEN call'.op ELSE ret'.op) \in
                    {"pixels", "pixels_mut", "age", "drop", "present",
                     "present_with_damage"}
             /\ sized' = sized
             /\ buffer' # None
             /\ buffer'[1].dc = buffer[1].dc /\ buffer'[1].bitmap = buffer[1].bitmap
             /\ ~session' => /\ pc' = "idle"
                             /\ ret'.op \in {"drop", "present", "present_with_damage"}
        /\ (pc = "idle" /\ pc' = "damage_loop") => session
        /\ (pc = "damage_loop" /\ pc' # "damage_loop") => ~session'
      ]_vars

C9_Witness ==
    /\ Returned("present", "Ok")
    /\ ~session
    /\ prev = <<"pixels_mut", "Ok">>

\* C10: when fetch() returns, the surface's buffer (handles, dimensions,
\* pixels, presented flag), the window's pixels and validity and the set of
\* live GDI objects are what they were when it was called: the temporary
\* buffer is gone.
C10_FetchIsPureRead ==
    [][ (pc = "fetch_blt" /\ pc' = "idle") =>
          /\ ret'.op = "fetch" /\ ret'.res = "Ok"
          /\ buffer' = call.pre[1].buffer
          /\ Age(buffer)' = Age(call.pre[1].buffer)
          /\ window' = call.pre[1].window
          /\ valid' = call.pre[1].valid
          /\ dcs' = call.pre[1].dcs
          /\ bitmaps' = call.pre[1].bitmaps
          /\ newbuf' = NoBuf
      ]_vars

C10_Witness ==
    /\ Returned("fetch", "Ok")
    /\ prev = <<"present_with_damage", "Ok">>
    /\ buffer[1].presented
    /\ buffer[1].pixels # ret.data
    /\ Cardinality(bitmaps) = 1

\* coordinates of the window's surface, and pixels by coordinate
WinCoords == (0..(WinW - 1)) \X (0..(WinH - 1))

WinAt(w, c) == w[c[2] * WinW + c[1] + 1]

InBuffer(b, c) == c[1] < b.width /\ c[2] < b.height

BufAt(b, c) == b.pixels[c[2] * b.width + c[1] + 1]

\* c lies in the block of a rect whose fields fit an i32
Covers(rect, c) ==
    /\ c[1] >= rect.x.lo /\ c[1] - rect.x.lo < rect.width.lo
    /\ c[2] >= rect.y.lo /\ c[2] - rect.y.lo < rect.height.lo

CoveredBy(rects, c) == \E k \in 1..Len(rects) : Covers(rects[k], c)

\* the window shows the buffer wherever one of the rects copied it, and what it
\* showed when the call began wherever no rect reached
CopiesApplied(rects, pre, b, w) ==
    \A c \in WinCoords :
        IF CoveredBy(rects, c)
        THEN InBuffer(b, c) => WinAt(w, c) = BufAt(b, c)
        ELSE WinAt(w, c) = WinAt(pre.window, c)

\* C11: the damage slice is read in order and each copy takes effect as it
\* runs.  When a rect is the first whose fields do not fit an i32, the call
\* returns DamageOutOfRange for that rect at once: the rects before it all fit
\* and their copies are on the window and stay there, and nothing else is
\* copied.
C11_EarlierCopiesStay ==
    [][ pc = "damage_loop" =>
          /\ pc' = "damage_loop" =>
                /\ Len(call'.done) = Len(call.done) + 1
                /\ SubSeq(call'.done, 1, Len(call.done)) = call.done
                /\ CopiesApplied(call'.done, call.pre[1], buffer[1], window')
          /\ (pc' = "idle" /\ ret'.res = "DamageOutOfRange") =>
                /\ ~AllFieldsFit(ret'.err[1])
                /\ \A k \in 1..Len(call.done) : AllFieldsFit(call.done[k])
                /\ window' = window
                /\ buffer' = call.pre[1].buffer
                /\ CopiesApplied(call.done, call.pre[1], buffer[1], window')
      ]_vars

\* a failed present_with_damage, the only present so far, has left one copied
\* pixel on a window that was of one colour
C11_Witness ==
    /\ Returned("present_with_damage", "DamageOutOfRange")
    /\ prev = <<"pixels_mut", "Ok">>
    /\ ~valid
    /\ sized = <<2, 2>>
    /\ buffer[1].pixels = <<1, 0, 0, 0>>
    /\ window = <<1, 0, 0, 0>>

\* C12: Win32Impl::new on a null window handle returns IncompleteWindowHandle
\* without having called GetDC: no device context is live and there is no
\* surface.
C12_NullHandle ==
    (ret.op = "new" /\ ret.arg = <<0>>) =>
        /\ ret.res = "IncompleteWindowHandle"
        /\ ret.n = 0
        /\ surface = None
        /\ dcs = {}
        /\ bitmaps = {}

C12_Witness ==
    /\ Returned("new", "IncompleteWindowHandle")
    /\ ret.arg = <<0>>
    /\ prev = <<"new", "PlatformError">>
    /\ surface = None


\* the pixel the buffer held at coordinate c when it was last presented
ShownAt(b, c) == shown[c[2] * b.width + c[1] + 1]

\* C13 as stated: whenever age() returns 1, the window over the buffer's area
\* equals the buffer's contents at its most recent successful present,
\* whatever damage list that present was given
C13_AgeOneMeansShown ==
    (Returned("age", "Ok") /\ ret.n = 1) =>
        \A c \in WinCoords :
            InBuffer(buffer[1], c) => WinAt(window, c) = ShownAt(buffer[1], c)

\* C13 amended: the age turns from 0 to 1 only where a present returns Ok, and
\* at that return the window equals the buffer's contents at the coordinates
\* the presented rects cover (for present(), the whole buffer's area); age()
\* returns 1 only for a buffer some present has returned Ok for
C13_AgeOneAfterPresent ==
    [][ /\ (Age(buffer) = 0 /\ Age(buffer') = 1) =>
            /\ pc = "damage_loop" /\ pc' = "idle" /\ ret'.res = "Ok"
            /\ shown' = BufferPixels(buffer[1])
        /\ (pc = "damage_loop" /\ pc' = "idle" /\ ret'.res = "Ok") =>
            /\ Age(buffer') = 1
            /\ \A c \in WinCoords :
                   (InBuffer(buffer[1], c) /\ (call.op = "present" \/ CoveredBy(call.done, c)))
                       => WinAt(window', c) = ShownAt(buffer[1], c)'
        /\ (ret'.op = "age" /\ ret'.n = 1 /\ pc' = "idle") =>
            Len(shown') = buffer'[1].width * buffer'[1].height
      ]_vars

\* age is 1 after an empty damage list was presented: the edited pixel is in
\* the buffer and not in the window
C13_Witness ==
    /\ Returned("present_with_damage", "Ok")
    /\ Age(buffer) = 1
    /\ sized = <<2, 2>>
    /\ shown = <<1, 0, 0, 0>>
    /\ window = <<0, 0, 0, 0>>

\* the rect lies inside the buffer's bounds
RectInside(b, rect) ==
    /\ AllFieldsFit(rect)
    /\ rect.x.lo < b.width /\ rect.width.lo <= b.width - rect.x.lo
    /\ rect.y.lo < b.height /\ rect.height.lo <= b.height - rect.y.lo

\* C14: where present_with_damage returns Ok for rects inside the buffer's
\* bounds, every window pixel inside some rect equals the buffer pixel at the
\* same coordinate, every window pixel outside all rects is what it was when
\* the call began, and the buffer's pixels are what they were
C14_DamageCopy ==
    [][ ( /\ pc = "damage_loop" /\ pc' = "idle" /\ ret'.res = "Ok"
          /\ call.op = "present_with_damage"
          /\ \A k \in 1..Len(call.done) : RectInside(buffer[1], call.done[k]) ) =>
            /\ \A c \in WinCoords :
                   IF CoveredBy(call.done, c)
                   THEN WinAt(window', c) = BufAt(buffer[1], c)
                   ELSE WinAt(window', c) = WinAt(call.pre[1].window, c)
            /\ buffer'[1].pixels = call.pre[1].buffer[1].pixels
            /\ buffer'[1].width = call.pre[1].buffer[1].width
            /\ buffer'[1].height = call.pre[1].buffer[1].height
      ]_vars

\* the right-hand column of a 2x2 buffer was presented over a window of
\* another colour
C14_Witness ==
    /\ Returned("present_with_damage", "Ok")
    /\ prev = <<"buffer_mut", "Ok">>
    /\ sized = <<2, 2>>
    /\ buffer[1].pixels = <<0, 0, 0, 0>>
    /\ window = <<1, 0, 1, 0>>

\* C15: a resize that returns Ok after building a buffer stores a fresh
\* instance: unpresented, of call.width * call.height pixels, none of them
\* taken from the old buffer, with handles of its own; the old instance, if
\* there was one, had other dimensions and its handles are released
C15_ResizeReplaces ==
    [][ (pc = "resize_assign" /\ pc' = "idle") =>
            /\ ret'.op = "resize" /\ ret'.res = "Ok"
            /\ buffer' # None
            /\ ~buffer'[1].presented
            /\ Age(buffer') = 0
            /\ buffer'[1].width = call.width /\ buffer'[1].height = call.height
            /\ Len(BufferPixels(buffer'[1])) = call.width * call.height
            /\ BufferPixels(buffer'[1]) = DibMemory(call.width, call.height)
            /\ buffer'[1].dc \in dcs' /\ buffer'[1].bitmap \in bitmaps'
            /\ buffer # None =>
                   /\ ~SameSize(buffer, call.width, call.height)
                   /\ buffer[1].dc \notin dcs' /\ buffer[1].bitmap \notin bitmaps'
                   /\ buffer'[1].dc # buffer[1].dc
                   /\ buffer'[1].bitmap # buffer[1].bitmap
      ]_vars

\* a 1x1 buffer holding 1 was presented and then replaced by a 2x1 buffer
C15_Witness ==
    /\ Returned("resize", "Ok")
    /\ prev = <<"present", "Ok">>
    /\ window = <<1, 0, 0, 0>>
    /\ sized = <<2, 1>>
    /\ BufferPixels(buffer[1]) = <<0, 0>>
    /\ ~buffer[1].presented
    /\ Cardinality(dcs) = 2 /\ Cardinality(bitmaps) = 1

\* the secondary DCs and the bitmaps some Buffer value owns
OwnedDcs ==
    (IF buffer # None THEN {buffer[1].dc} ELSE {})
        \cup (IF newbuf # NoBuf THEN {newbuf.dc} ELSE {})

OwnedBitmaps ==
    (IF buffer # None THEN {buffer[1].bitmap} ELSE {})
        \cup (IF newbuf # NoBuf THEN {newbuf.bitmap} ELSE {})

\* the DC GetDC returned for the window
WindowDcs == IF surface # None THEN {surface[1].dc} ELSE {}

\* C16 as stated: on every path, creation failing part-way and the surface's
\* drop included, no secondary DC or bitmap is leaked or released twice: every
\* live secondary DC and bitmap belongs to a Buffer that is still alive, every
\* live Buffer's two handles are both live, and no delete was given a handle
\* that was not live
C16_ReleasedOnEveryPath ==
    /\ ~gdiErr
    /\ dcs \ WindowDcs = OwnedDcs
    /\ bitmaps = OwnedBitmaps

\* C17: the vector fetch returns holds, for every coordinate of the current
\* buffer's area, the pixel the window shows there, row by row in the buffer's
\* width, whatever the buffer itself holds; straight after a present() that
\* is what that present put on screen
C17_FetchReturnsWindow ==
    Returned("fetch", "Ok") =>
        /\ buffer # None
        /\ Len(ret.data) = buffer[1].width * buffer[1].height
        /\ \A c \in WinCoords :
               InBuffer(buffer[1], c) =>
                   ret.data[c[2] * buffer[1].width + c[1] + 1] = WinAt(window, c)
        /\ prev = <<"present", "Ok">> => ret.data = shown

\* a pixel was written, the session dropped without presenting, and fetch
\* returned the window's pixel, not the written one
C17_Witness ==
    /\ Returned("fetch", "Ok")
    /\ prev = <<"drop", "Ok">>
    /\ sized = <<1, 1>>
    /\ BufferPixels(buffer[1]) = <<1>>
    /\ ret.data = <<0>>

\* C18: present_with_damage leaves its loop in one of three ways only: a rect
\* with all four fields in i32 is copied and the loop goes on, whether or not
\* the rect lies inside the buffer; a rect with a field outside i32 ends the
\* call with DamageOutOfRange; and the end of the list ends it with Ok and the
\* buffer marked presented, whatever rects were copied
C18_NoClipping ==
    [][ (pc = "damage_loop" /\ call.op = "present_with_damage") =>
            \/ /\ pc' = "damage_loop"
               /\ Len(call'.done) = Len(call.done) + 1
               /\ AllFieldsFit(call'.done[Len(call'.done)])
            \/ /\ pc' = "idle"
               /\ ret'.res = "DamageOutOfRange"
               /\ ~AllFieldsFit(ret'.err[1])
               /\ \A k \in 1..Len(call.done) : AllFieldsFit(call.done[k])
            \/ /\ pc' = "idle"
               /\ ret'.res = "Ok"
               /\ Age(buffer') = 1
               /\ \A k \in 1..Len(call.done) : AllFieldsFit(call.done[k])
      ]_vars

\* a rect reaching beyond a 1x1 buffer was presented with Ok: the copy changed
\* a window pixel outside the buffer's area
C18_Witness ==
    /\ Returned("present_with_damage", "Ok")
    /\ prev = <<"buffer_mut", "Ok">>
    /\ sized = <<1, 1>>
    /\ Age(buffer) = 1
    /\ window[2] # window[3]

\* C19: short of the surface's own drop, no step takes a surface that has a
\* buffer to one that has none; a session exists only on a surface with a
\* buffer; and a panic comes only from buffer_mut or fetch on a surface
\* without a buffer or from inside Buffer::new, never from pixels, pixels_mut,
\* age, present or present_with_damage
C19_BufferStays ==
    [][ /\ (buffer # None /\ pc' # "dropped") => buffer' # None
        /\ session' => buffer' # None
        /\ (pc # "panicked" /\ pc' = "panicked") =>
               \/ pc = "idle" /\ ret'.op \in {"buffer_mut", "fetch"} /\ buffer = None
               \/ pc = "buffer_new" /\ ret'.op \in {"resize", "fetch"}
      ]_vars

\* a session was opened on the buffer right after a resize failed
C19_Witness ==
    /\ Returned("buffer_mut", "Ok")
    /\ prev = <<"resize", "SizeOutOfRange">>
    /\ session
    /\ buffer # None
    /\ sized = <<1, 2>>

\* C20: fetch has no Err outcome.  Entered on a surface without a buffer it
\* panics at once; entered on a surface with a buffer it builds the temporary
\* buffer (or panics inside Buffer::new) and then returns Ok with exactly
\* width * height pixels of the current buffer's dimensions
C20_FetchNeverErr ==
    [][ /\ (ret'.op = "fetch" /\ pc' \in {"idle", "panicked"}) =>
               /\ ret'.res \in {"Ok", "panic"}
               /\ ret'.err = <<>>
        /\ (pc = "idle" /\ pc' = "panicked" /\ ret'.op = "fetch") =>
               /\ ret'.res = "panic"
               /\ buffer = None /\ sized = <<>>
        /\ (pc = "idle" /\ call'.op = "fetch") =>
               /\ buffer # None /\ pc' = "buffer_new"
        /\ (pc = "buffer_new" /\ call.op = "fetch") =>
               \/ pc' = "fetch_blt"
               \/ pc' = "panicked" /\ ret'.res = "panic"
        /\ pc = "fetch_blt" =>
               /\ pc' = "idle" /\ ret'.op = "fetch" /\ ret'.res = "Ok"
               /\ Len(ret'.data) = buffer[1].width * buffer[1].height
               /\ sized = <<buffer[1].width, buffer[1].height>>
      ]_vars

\* fetch on a surface that was never resized: the panic
C20_Witness ==
    /\ ret.op = "fetch" /\ ret.res = "panic"
    /\ pc = "panicked"
    /\ prev = <<"new", "Ok">>
    /\ surface # None
    /\ buffer = None
    /\ sized = <<>>
====
